---------------------------- MODULE Spec2Model ----------------------------
(***************************************************************************)
(* A model of src/kanjiComposition.js:                                     *)
(*   - KanjiEditorState (reset / update / undo / exportJson / importJson)  *)
(*     under the specification SpecStore;                                  *)
(*   - KanjiComposer.compose and transformStrokes under SpecCompose;       *)
(*   - GlyphLoader.load and KanjiComposer.composeRandom, with the          *)
(*     interleavings of their asynchronous continuations, under Spec.      *)
(* The three parts share no state in the source; each specification keeps  *)
(* the variables of the other parts at their initial values.               *)
(***************************************************************************)
EXTENDS Integers, Sequences, FiniteSets, TLC

VARIABLES
    state,      \* KanjiEditorState.state: the current object, <<key, value>> pairs
    history,    \* KanjiEditorState.history: sequence of snapshot objects
    lastOp,     \* the last store operation called, its argument and its return value
    shadow      \* history variable: the states that were current right before each
                \* update that has not been undone (cleared by reset / import)

storeVars == <<state, history, lastOp, shadow>>

VARIABLES
    call,       \* the arguments of one compose call (strokes already flattened)
    result      \* what the call returned, once it has returned

composeVars == <<call, result>>

VARIABLES
    cache,       \* GlyphLoader.cache: key -> entry
    calls,       \* every load() invocation so far, in order of invocation
    fetchCount,  \* id -> number of times fetch() was called for it
    writes,      \* id -> number of times this.cache[id] was assigned
    faults,      \* number of fetches that failed or returned malformed data
    cr           \* the composeRandom invocation: where it is, what it passed on

loaderVars == <<cache, calls, fetchCount, writes, faults, cr>>

vars == <<storeVars, composeVars, loaderVars>>

(***************************************************************************)
(* JavaScript values.  Every value is a record of one shape so that any    *)
(* two values can be compared; typeof is the field t.                      *)
(***************************************************************************)
Str(s) == [t |-> "string", s |-> s, n |-> 0]
Num(n) == [t |-> "number", s |-> "finite", n |-> n]
Infinity == [t |-> "number", s |-> "Infinity", n |-> 0]
NaN == [t |-> "number", s |-> "NaN", n |-> 0]
Undefined == [t |-> "undefined", s |-> "", n |-> 0]
Null == [t |-> "object", s |-> "null", n |-> 0]
ArrayValue == [t |-> "object", s |-> "array", n |-> 0]

typeof(v) == v.t

IsFinite(v) == v.t = "number" /\ v.s = "finite"

(***************************************************************************)
(* A JavaScript object is its own-property list in insertion order.        *)
(***************************************************************************)
HasKey(obj, k) == \E i \in 1..Len(obj) : obj[i][1] = k

\* obj.k : the property's value, undefined when the object has no such key
Get(obj, k) ==
    IF HasKey(obj, k)
    THEN LET i == CHOOSE j \in 1..Len(obj) : obj[j][1] = k IN obj[i][2]
    ELSE Undefined

\* obj.k = v : overwrite in place, or append a new own property
Set(obj, k, v) ==
    IF HasKey(obj, k)
    THEN [i \in 1..Len(obj) |-> IF obj[i][1] = k THEN <<k, v>> ELSE obj[i]]
    ELSE Append(obj, <<k, v>>)


(***************************************************************************)
(* JSON text.  A text is modelled by its syntax tree: what was written,    *)
(* not what it denotes.  k is the production ("garbage" for a text that    *)
(* is not JSON), lit the literal as written (a number literal or the       *)
(* contents of a string literal), members the <<key, text>> members of an  *)
(* object literal in the order written (duplicate keys are legal JSON).    *)
(***************************************************************************)
JGarbage == [k |-> "garbage", lit |-> "", members |-> <<>>]
JNull == [k |-> "null", lit |-> "null", members |-> <<>>]
JArr == [k |-> "array", lit |-> "[]", members |-> <<>>]
JNum(lit) == [k |-> "number", lit |-> lit, members |-> <<>>]
JStr(s) == [k |-> "string", lit |-> s, members |-> <<>>]
JObj(members) == [k |-> "object", lit |-> "", members |-> members]

\* The number a JSON number literal denotes (ECMAScript StringToNumber):
\* an exponent form denotes the same number as the plain form, and a
\* literal beyond the double range denotes Infinity.
NumberLiterals == {"0", "-1", "200", "2e2", "320", "500", "40000", "64000",
                   "100000", "1e999"}

LiteralValue(lit) ==
    CASE lit = "0" -> Num(0)
      [] lit = "-1" -> Num(-1)
      [] lit = "200" -> Num(200)
      [] lit = "2e2" -> Num(200)
      [] lit = "320" -> Num(320)
      [] lit = "500" -> Num(500)
      [] lit = "40000" -> Num(40000)
      [] lit = "64000" -> Num(64000)
      [] lit = "100000" -> Num(100000)
      [] lit = "1e999" -> Infinity

\* JSON.parse of a scalar or array text: the value it yields
ParseScalar(text) ==
    CASE text.k = "null" -> Null
      [] text.k = "array" -> ArrayValue
      [] text.k = "number" -> LiteralValue(text.lit)
      [] text.k = "string" -> Str(text.lit)
      [] OTHER -> Undefined

\* JSON.parse of an object text: members in the order written, a repeated
\* key keeping its first position and taking its last value
RECURSIVE ParseMembers(_)
ParseMembers(members) ==
    IF members = <<>> THEN <<>>
    ELSE LET front == SubSeq(members, 1, Len(members) - 1)
             last == members[Len(members)]
         IN Set(ParseMembers(front), last[1], ParseScalar(last[2]))

\* JSON.stringify of one property value: a finite number is written in
\* its canonical decimal form, NaN and the infinities are written null
StringifyValue(v) ==
    CASE v.t = "string" -> JStr(v.s)
      [] v.t = "number" /\ v.s = "finite" -> JNum(ToString(v.n))
      [] v.t = "number" /\ v.s # "finite" -> JNull
      [] v.t = "object" /\ v.s = "array" -> JArr
      [] OTHER -> JNull

\* JSON.stringify of an object: its own properties in insertion order,
\* a property whose value is undefined being left out
RECURSIVE StringifyMembers(_)
StringifyMembers(obj) ==
    IF obj = <<>> THEN <<>>
    ELSE LET rest == StringifyMembers(Tail(obj))
         IN IF Head(obj)[2].t = "undefined" THEN rest
            ELSE <<(<<Head(obj)[1], StringifyValue(Head(obj)[2])>>)>> \o rest

(***************************************************************************)
(* KanjiEditorState.  Each method is an operator from the object's fields  *)
(* to the fields after the call and the value returned.  update() pushes   *)
(* a copy ({...this.state}) and then assigns the three fields of the live  *)
(* object; undo() makes the popped copy the live object; so no snapshot on *)
(* the stack is ever aliased by this.state and values model the objects.   *)
(***************************************************************************)
InitialLogicalSize == 200
InitialArea == 40000

_getInitialState ==
    <<(<<"data", Str("")>>), (<<"logicalSize", Num(InitialLogicalSize)>>),
      (<<"area", Num(InitialArea)>>)>>

reset(st, hist, initialData) ==
    [state |-> <<(<<"data", initialData>>),
                 (<<"logicalSize", Num(InitialLogicalSize)>>),
                 (<<"area", Num(InitialArea)>>)>>,
     history |-> <<>>,
     ret |-> Undefined]

\* a plausible slip: the live object itself is pushed, so the later field
\* assignments show through the snapshot
update_pushAlias(st, hist, newData, newSize, newArea) ==
    LET next == Set(Set(Set(st, "data", newData), "logicalSize", newSize),
                    "area", newArea)
    IN [state |-> next, history |-> Append(hist, next), ret |-> Undefined]

update(st, hist, newData, newSize, newArea) ==
    [state |-> Set(Set(Set(st, "data", newData), "logicalSize", newSize),
                   "area", newArea),
     history |-> Append(hist, st),
     ret |-> Undefined]

undo(st, hist) ==
    IF Len(hist) > 0
    THEN [state |-> hist[Len(hist)],
          history |-> SubSeq(hist, 1, Len(hist) - 1),
          ret |-> TRUE]
    ELSE [state |-> st, history |-> hist, ret |-> FALSE]

getCurrent(st) == st

exportJson(st) == JObj(StringifyMembers(st))

\* a plausible slip: only the data field is validated
importJson_dataOnly(st, hist, jsonString) ==
    IF jsonString.k \in {"garbage", "null"}
    THEN [state |-> st, history |-> hist, ret |-> FALSE]
    ELSE LET parsed == ParseMembers(jsonString.members)
         IN IF typeof(Get(parsed, "data")) = "string"
            THEN [state |-> parsed, history |-> <<>>, ret |-> TRUE]
            ELSE [state |-> st, history |-> hist, ret |-> FALSE]

\* JSON.parse throws on a text that is not JSON; reading a property of null
\* throws; both reach the catch.  A number, string or array parses, and
\* reading its data property yields undefined (modelled by the empty
\* member list such a text has).
importJson(st, hist, jsonString) ==
    IF jsonString.k \in {"garbage", "null"}
    THEN [state |-> st, history |-> hist, ret |-> FALSE]
    ELSE LET parsed == ParseMembers(jsonString.members)
         IN IF /\ typeof(Get(parsed, "data")) = "string"
               /\ typeof(Get(parsed, "logicalSize")) = "number"
               /\ typeof(Get(parsed, "area")) = "number"
            THEN [state |-> parsed, history |-> <<>>, ret |-> TRUE]
            ELSE [state |-> st, history |-> hist, ret |-> FALSE]

(***************************************************************************)
(* The store's callers: the inputs the operations are called with.         *)
(***************************************************************************)
MaxHist == 2

ResetData == {Str(""), Str("a")}

UpdateData == {Str("a"), Str("b")}

\* <<logicalSize, area>> pairs as compose returns them from the initial
\* 200 / 40000 square (ADD_RIGHT and ADD_LEFT with areaFactor 1)
UpdateMetrics == {<<Num(500), Num(100000)>>, <<Num(320), Num(64000)>>}

\* Import texts with, for each, what the text says: whether it is a JSON
\* object with a string data, a numeric logicalSize and a numeric area
\* member, and if so the three values it gives.
Member(k, text) == <<k, text>>

ImportCase(text, valid, d, sz, ar) ==
    [text |-> text, valid |-> valid,
     data |-> d, logicalSize |-> sz, area |-> ar]

Rejected(text) == ImportCase(text, FALSE, Undefined, Undefined, Undefined)

ImportCases ==
    { Rejected(JGarbage),
      Rejected(JNull),
      Rejected(JNum("200")),
      Rejected(JStr("a")),
      Rejected(JArr),
      Rejected(JObj(<<Member("logicalSize", JNum("200")),
                      Member("area", JNum("40000"))>>)),
      Rejected(JObj(<<Member("data", JNum("200")),
                      Member("logicalSize", JNum("200")),
                      Member("area", JNum("40000"))>>)),
      Rejected(JObj(<<Member("data", JStr("a")),
                      Member("logicalSize", JStr("500")),
                      Member("area", JNum("100000"))>>)),
      Rejected(JObj(<<Member("data", JStr("a")),
                      Member("logicalSize", JNum("500")),
                      Member("area", JNull)>>)),
      ImportCase(JObj(<<Member("data", JStr("a")),
                        Member("logicalSize", JNum("500")),
                        Member("area", JNum("100000"))>>),
                 TRUE, Str("a"), Num(500), Num(100000)),
      ImportCase(JObj(<<Member("area", JNum("40000")),
                        Member("extra", JStr("x")),
                        Member("logicalSize", JNum("2e2")),
                        Member("data", JStr(""))>>),
                 TRUE, Str(""), Num(200), Num(40000)),
      ImportCase(JObj(<<Member("data", JNum("200")),
                        Member("data", JStr("b")),
                        Member("logicalSize", JNum("320")),
                        Member("area", JNum("64000"))>>),
                 TRUE, Str("b"), Num(320), Num(64000)),
      ImportCase(JObj(<<Member("data", JStr("a")),
                        Member("logicalSize", JNum("1e999")),
                        Member("area", JNum("40000"))>>),
                 TRUE, Str("a"), Infinity, Num(40000)),
      ImportCase(JObj(<<Member("data", JStr("a")),
                        Member("logicalSize", JNum("0")),
                        Member("area", JNum("-1"))>>),
                 TRUE, Str("a"), Num(0), Num(-1)) }

ImportTexts == {c.text : c \in ImportCases}

CaseOf(text) == CHOOSE c \in ImportCases : c.text = text

NoArg == JGarbage

InitStore ==
    /\ state = _getInitialState
    /\ history = <<>>
    /\ lastOp = [op |-> "new", arg |-> NoArg, ret |-> Undefined]
    /\ shadow = <<>>

Reset(initialData) ==
    LET r == reset(state, history, initialData)
    IN /\ state' = r.state
       /\ history' = r.history
       /\ lastOp' = [op |-> "reset", arg |-> NoArg, ret |-> r.ret]
       /\ shadow' = <<>>
       /\ UNCHANGED <<composeVars, loaderVars>>

Update(newData, newSize, newArea) ==
    /\ Len(history) < MaxHist
    /\ LET r == update(state, history, newData, newSize, newArea)
       IN /\ state' = r.state
          /\ history' = r.history
          /\ lastOp' = [op |-> "update", arg |-> NoArg, ret |-> r.ret]
    /\ shadow' = Append(shadow, state)
    /\ UNCHANGED <<composeVars, loaderVars>>

Undo ==
    LET r == undo(state, history)
    IN /\ state' = r.state
       /\ history' = r.history
       /\ lastOp' = [op |-> "undo", arg |-> NoArg, ret |-> r.ret]
       /\ shadow' = IF r.ret THEN SubSeq(shadow, 1, Len(shadow) - 1) ELSE shadow
       /\ UNCHANGED <<composeVars, loaderVars>>

ImportJson(jsonString) ==
    LET r == importJson(state, history, jsonString)
    IN /\ state' = r.state
       /\ history' = r.history
       /\ lastOp' = [op |-> "importJson", arg |-> jsonString, ret |-> r.ret]
       /\ shadow' = IF r.ret THEN <<>> ELSE shadow
       /\ UNCHANGED <<composeVars, loaderVars>>

\* importJson(exportJson()): the text imported is the one just exported
ImportExported == ImportJson(exportJson(getCurrent(state)))

NextStore ==
    \/ \E d \in ResetData : Reset(d)
    \/ \E d \in UpdateData, m \in UpdateMetrics : Update(d, m[1], m[2])
    \/ Undo
    \/ \E text \in ImportTexts : ImportJson(text)
    \/ ImportExported

(***************************************************************************)
(* Properties of the state store.                                          *)
(***************************************************************************)
SameComposite(a, b) ==
    /\ Get(a, "data") = Get(b, "data")
    /\ Get(a, "logicalSize") = Get(b, "logicalSize")
    /\ Get(a, "area") = Get(b, "area")

\* C5: a successful undo makes current exactly the state that was current
\* immediately before the most recent update not yet undone (the top of
\* shadow) and removes that one snapshot from the history; an undo on an
\* empty history returns false and changes neither state nor history.
UndoRestoresPriorState ==
    [][lastOp'.op = "undo" =>
          IF history # <<>>
          THEN /\ lastOp'.ret = TRUE
               /\ shadow # <<>>
               /\ state' = shadow[Len(shadow)]
               /\ SameComposite(state', shadow[Len(shadow)])
               /\ history' = SubSeq(history, 1, Len(history) - 1)
          ELSE /\ lastOp'.ret = FALSE
               /\ state' = state
               /\ history' = history]_vars

\* C5 witness: two updates, then one undo that succeeded
UndoneOnce ==
    /\ lastOp.op = "undo"
    /\ lastOp.ret = TRUE
    /\ Len(history) = 1
    /\ Get(state, "data") \in UpdateData

\* C6: importJson of a text that is not a JSON object with a string data,
\* a numeric logicalSize and a numeric area returns false and changes
\* neither state nor history; importJson of a valid text returns true,
\* empties the history and makes the three values of the text current.
ImportValidates ==
    [][(lastOp'.op = "importJson" /\ lastOp'.arg \in ImportTexts) =>
          LET c == CaseOf(lastOp'.arg)
          IN IF c.valid
             THEN /\ lastOp'.ret = TRUE
                  /\ history' = <<>>
                  /\ Get(state', "data") = c.data
                  /\ Get(state', "logicalSize") = c.logicalSize
                  /\ Get(state', "area") = c.area
             ELSE /\ lastOp'.ret = FALSE
                  /\ state' = state
                  /\ history' = history]_vars

\* C6 witness: a valid text (its data member written twice) was imported
ImportedValid ==
    /\ lastOp.op = "importJson"
    /\ lastOp.arg \in ImportTexts
    /\ lastOp.ret = TRUE
    /\ Get(state, "data") = Str("b")
    /\ Get(state, "logicalSize") = Num(320)
    /\ history = <<>>

\* C7: in every reachable state importJson(exportJson()) returns true,
\* leaves data, logicalSize and area as they were and empties the history.
RoundTripRestores ==
    [][(lastOp'.op = "importJson" /\ lastOp'.arg = exportJson(state)) =>
          /\ lastOp'.ret = TRUE
          /\ SameComposite(state', state)
          /\ history' = <<>>]_vars

\* The round trip does restore every state whose two numbers are finite.
RoundTripRestoresFinite ==
    [][(/\ lastOp'.op = "importJson"
        /\ lastOp'.arg = exportJson(state)
        /\ IsFinite(Get(state, "logicalSize"))
        /\ IsFinite(Get(state, "area"))) =>
          /\ lastOp'.ret = TRUE
          /\ SameComposite(state', state)
          /\ history' = <<>>]_vars

\* a number greater than zero (Infinity is one; NaN is not)
Positive(v) ==
    /\ typeof(v) = "number"
    /\ \/ v.s = "Infinity"
       \/ (v.s = "finite" /\ v.n > 0)

PositiveComposite(st) ==
    /\ Positive(Get(st, "logicalSize"))
    /\ Positive(Get(st, "area"))

\* C12: in every state reachable by reset, update, undo and successful
\* importJson, the current Composite State and every snapshot on the
\* history stack have logicalSize > 0 and area > 0.
StoreSizesPositive ==
    /\ PositiveComposite(state)
    /\ \A i \in 1..Len(history) : PositiveComposite(history[i])

\* reset, update with the sizes compose returns, and undo keep the sizes
\* positive; only importJson lets another number in.
PositiveKeptWithoutImport ==
    [][(lastOp'.op # "importJson" /\ StoreSizesPositive) =>
          StoreSizesPositive']_vars

(***************************************************************************)
(* Numbers of the composition arithmetic.  compose works on JavaScript     *)
(* numbers with fractional values (a size divided by 0.7, a rect of 0.45); *)
(* they are modelled as exact rationals <<numerator, denominator>> in      *)
(* lowest terms with a positive denominator, so that equal numbers are     *)
(* equal tuples.  The rounding of IEEE doubles is not modelled.            *)
(***************************************************************************)
Abs(i) == IF i < 0 THEN -i ELSE i

RECURSIVE GCD(_, _)
GCD(a, b) == IF b = 0 THEN a ELSE GCD(b, a % b)

Rat(n, d) ==
    LET g == GCD(Abs(n), Abs(d))
        sgn == IF d < 0 THEN -1 ELSE 1
    IN <<sgn * (n \div g), sgn * (d \div g)>>

R(i) == <<i, 1>>

\* over the least common denominator, to keep the products small
RAdd(a, b) ==
    LET g == GCD(a[2], b[2])
    IN Rat(a[1] * (b[2] \div g) + b[1] * (a[2] \div g), (a[2] \div g) * b[2])

RSub(a, b) == RAdd(a, <<-b[1], b[2]>>)

\* cross-reduced before multiplying, to keep the products small
RMul(a, b) ==
    LET p == Rat(a[1], b[2])
        q == Rat(b[1], a[2])
    IN Rat(p[1] * q[1], p[2] * q[2])

RDiv(a, b) == RMul(a, Rat(b[2], b[1]))

\* Math.floor
Floor(a) == a[1] \div a[2]

IsInteger(a) == a[2] = 1

(***************************************************************************)
(* KanjiComposer.  A stroke is the array flatten() returns for one record: *)
(* three attribute fields, then x, y, x, y, ...  flatten() itself is the   *)
(* external stroke-decomposition engine; compose is modelled from the      *)
(* point where both flatten() calls have returned their stroke arrays.     *)
(***************************************************************************)
KageSize == 200

NoRect == [given |-> FALSE, x |-> R(0), y |-> R(0), w |-> R(1), h |-> R(1)]

Rect(x, y, w, h) == [given |-> TRUE, x |-> x, y |-> y, w |-> w, h |-> h]

Box(x, y, w, h) == [x |-> x, y |-> y, w |-> w, h |-> h]

\* one stroke of transformStrokes: index 3 (0-based) onwards alternate x, y;
\* the model's sequences are 1-based, so the coordinates start at index 4
TransformStroke(s, scaleX, scaleY, offsetX, offsetY) ==
    [i \in 1..Len(s) |->
        IF i < 4 THEN s[i]
        ELSE IF (i - 4) % 2 = 0
             THEN Floor(RAdd(RMul(R(s[i]), scaleX), offsetX))
             ELSE Floor(RAdd(RMul(R(s[i]), scaleY), offsetY))]

\* a plausible slip: the source region's origin is not subtracted and the
\* target offset is dropped
transformStrokes_noOffset(strokes, targetBox, srcRect) ==
    LET sW == RMul(IF srcRect.given THEN srcRect.w ELSE R(1), R(KageSize))
        sH == RMul(IF srcRect.given THEN srcRect.h ELSE R(1), R(KageSize))
        scaleX == RDiv(targetBox.w, sW)
        scaleY == RDiv(targetBox.h, sH)
    IN [k \in 1..Len(strokes) |->
           TransformStroke(strokes[k], scaleX, scaleY, R(0), R(0))]

transformStrokes(strokes, targetBox, srcRect) ==
    LET sX == RMul(IF srcRect.given THEN srcRect.x ELSE R(0), R(KageSize))
        sY == RMul(IF srcRect.given THEN srcRect.y ELSE R(0), R(KageSize))
        sW == RMul(IF srcRect.given THEN srcRect.w ELSE R(1), R(KageSize))
        sH == RMul(IF srcRect.given THEN srcRect.h ELSE R(1), R(KageSize))
        scaleX == RDiv(targetBox.w, sW)
        scaleY == RDiv(targetBox.h, sH)
        offsetX == RSub(targetBox.x, RMul(sX, scaleX))
        offsetY == RSub(targetBox.y, RMul(sY, scaleY))
    IN [k \in 1..Len(strokes) |->
           TransformStroke(strokes[k], scaleX, scaleY, offsetX, offsetY)]

\* s.join(':') of one stroke: the decimal text of each number, separated
RECURSIVE JoinFields(_)
JoinFields(s) ==
    IF s = <<>> THEN <<>>
    ELSE IF Len(s) = 1 THEN <<ToString(s[1])>>
    ELSE <<ToString(s[1]), ":">> \o JoinFields(Tail(s))

\* stringify: strokes.map(s => s.join(':')).join('$'), as the sequence of
\* the text's tokens
RECURSIVE stringify(_)
stringify(strokes) ==
    IF strokes = <<>> THEN <<>>
    ELSE IF Len(strokes) = 1 THEN JoinFields(strokes[1])
    ELSE JoinFields(strokes[1]) \o <<"$">> \o stringify(Tail(strokes))

\* the tuning constants of the layouts
AddRightW == 300
AddLeftW == 120
AddTopH == 150
AddBottomH == 150
EncloseGrow == 70
TriangleUnitArea == 40000
TriangleCopies == 3
NyouRatio == <<7, 10>>
NyouOffsetRatio == <<1, 10>>
EncloseBoxScale == <<7, 5>>
GateInnerRatio == <<3, 4>>
GateContentScale == <<1, 2>>
GateOffsetRatio == <<9, 20>>
Half == <<1, 2>>

Layouts == {"ADD_RIGHT", "ADD_LEFT", "ADD_TOP", "ADD_BOTTOM", "NYOU",
            "ENCLOSE", "ENCLOSE_GATE", "TRIANGLE"}

\* step 1 of compose for the seven layouts that keep the existing glyph:
\* the next logical size (not yet floored) and the two placement boxes
LayoutBoxes(layoutMode, cur) ==
    CASE layoutMode = "ADD_RIGHT" ->
           LET next == RAdd(cur, R(AddRightW))
           IN [next |-> next,
               boxCurrent |-> Box(R(0), R(0), cur, next),
               boxPart |-> Box(cur, R(0), R(AddRightW), next)]
      [] layoutMode = "ADD_LEFT" ->
           LET next == RAdd(cur, R(AddLeftW))
           IN [next |-> next,
               boxPart |-> Box(R(0), R(0), R(AddLeftW), next),
               boxCurrent |-> Box(R(AddLeftW), R(0), cur, next)]
      [] layoutMode = "ADD_TOP" ->
           LET next == RAdd(cur, R(AddTopH))
           IN [next |-> next,
               boxPart |-> Box(R(0), R(0), next, R(AddTopH)),
               boxCurrent |-> Box(R(0), R(AddTopH), next, cur)]
      [] layoutMode = "ADD_BOTTOM" ->
           LET next == RAdd(cur, R(AddBottomH))
           IN [next |-> next,
               boxCurrent |-> Box(R(0), R(0), next, cur),
               boxPart |-> Box(R(0), cur, next, R(AddBottomH))]
      [] layoutMode = "NYOU" ->
           LET next == RDiv(cur, NyouRatio)
               margin == RSub(next, cur)
               offsetY == RMul(next, NyouOffsetRatio)
           IN [next |-> next,
               boxPart |-> Box(R(0), R(0), next, next),
               boxCurrent |-> Box(margin, offsetY, cur, cur)]
      [] layoutMode = "ENCLOSE" ->
           LET next == RAdd(cur, R(EncloseGrow))
               boxSize == RSub(RMul(next, EncloseBoxScale), R(EncloseGrow))
               boxPadding == RMul(RSub(next, boxSize), Half)
               padding == RMul(RSub(next, cur), Half)
           IN [next |-> next,
               boxPart |-> Box(boxPadding, boxPadding, boxSize, boxSize),
               boxCurrent |-> Box(padding, padding, cur, cur)]
      [] layoutMode = "ENCLOSE_GATE" ->
           LET next == RDiv(cur, GateInnerRatio)
               contentW == RMul(next, GateContentScale)
               contentH == RMul(next, GateContentScale)
               offsetX == RMul(RSub(next, contentW), Half)
               offsetY == RMul(next, GateOffsetRatio)
           IN [next |-> next,
               boxPart |-> Box(R(0), R(0), next, next),
               boxCurrent |-> Box(offsetX, offsetY, contentW, contentH)]

\* a plausible slip: the ratio is taken from the floored size that is
\* returned instead of the size the layout computed
nextArea_fromFloored(currentArea, nextLogicalSize, currentLogicalSize, areaFactor) ==
    LET baseRatio == RDiv(R(Floor(nextLogicalSize)), currentLogicalSize)
        baseNextArea == RMul(currentArea, baseRatio)
        deltaArea == RSub(baseNextArea, currentArea)
        adjustedDelta == RMul(deltaArea, areaFactor)
    IN RAdd(currentArea, adjustedDelta)

\* step 2 of compose: area preservation
nextArea(currentArea, nextLogicalSize, currentLogicalSize, areaFactor) ==
    LET baseRatio == RDiv(nextLogicalSize, currentLogicalSize)
        baseNextArea == RMul(currentArea, baseRatio)
        deltaArea == RSub(baseNextArea, currentArea)
        adjustedDelta == RMul(deltaArea, areaFactor)
    IN RAdd(currentArea, adjustedDelta)

\* step 3 of compose for the existing strokes: the inline map over
\* strokesCurrent (pairs from index 3, each floored)
TransformCurrent(strokesCurrent, boxCurrent, currentLogicalSize) ==
    LET scaleX_curr == RDiv(boxCurrent.w, currentLogicalSize)
        scaleY_curr == RDiv(boxCurrent.h, currentLogicalSize)
    IN [k \in 1..Len(strokesCurrent) |->
           TransformStroke(strokesCurrent[k], scaleX_curr, scaleY_curr,
                           boxCurrent.x, boxCurrent.y)]

\* a plausible slip: TRIANGLE goes through the area-preservation rule of
\* the other layouts instead of its fixed area
compose_triangleAreaRule(strokesCurrent, strokesPart, layoutMode, currentLogicalSize, currentArea, areaFactor, partRect) ==
    LET srcPartRect == IF partRect.given THEN partRect
                       ELSE Rect(R(0), R(0), R(1), R(1))
    IN IF layoutMode = "TRIANGLE"
       THEN LET nextLogicalSize == RMul(currentLogicalSize, R(2))
                half == RMul(nextLogicalSize, Half)
                boxTop == Box(RMul(half, Half), R(0), half, half)
                boxLeft == Box(R(0), half, half, half)
                boxRight == Box(half, half, half, half)
                s1 == transformStrokes(strokesPart, boxTop, srcPartRect)
                s2 == transformStrokes(strokesPart, boxLeft, srcPartRect)
                s3 == transformStrokes(strokesPart, boxRight, srcPartRect)
            IN [data |-> stringify(s1 \o s2 \o s3),
                logicalSize |-> nextLogicalSize,
                area |-> nextArea(currentArea, nextLogicalSize,
                                  currentLogicalSize, areaFactor)]
       ELSE LET lay == LayoutBoxes(layoutMode, currentLogicalSize)
                transCurrent == TransformCurrent(strokesCurrent, lay.boxCurrent,
                                                 currentLogicalSize)
                transPart == transformStrokes(strokesPart, lay.boxPart, srcPartRect)
            IN [data |-> stringify(transCurrent \o transPart),
                logicalSize |-> R(Floor(lay.next)),
                area |-> nextArea(currentArea, lay.next, currentLogicalSize,
                                  areaFactor)]

\* compose, from the flattened strokes of currentData and partData on
compose(strokesCurrent, strokesPart, layoutMode, currentLogicalSize, currentArea, areaFactor, partRect) ==
    LET srcPartRect == IF partRect.given THEN partRect
                       ELSE Rect(R(0), R(0), R(1), R(1))
    IN IF layoutMode = "TRIANGLE"
       THEN LET nextLogicalSize == RMul(currentLogicalSize, R(2))
                half == RMul(nextLogicalSize, Half)
                boxTop == Box(RMul(half, Half), R(0), half, half)
                boxLeft == Box(R(0), half, half, half)
                boxRight == Box(half, half, half, half)
                s1 == transformStrokes(strokesPart, boxTop, srcPartRect)
                s2 == transformStrokes(strokesPart, boxLeft, srcPartRect)
                s3 == transformStrokes(strokesPart, boxRight, srcPartRect)
            IN [data |-> stringify(s1 \o s2 \o s3),
                logicalSize |-> nextLogicalSize,
                area |-> RMul(R(TriangleUnitArea * TriangleCopies), areaFactor)]
       ELSE LET lay == LayoutBoxes(layoutMode, currentLogicalSize)
                transCurrent == TransformCurrent(strokesCurrent, lay.boxCurrent,
                                                 currentLogicalSize)
                transPart == transformStrokes(strokesPart, lay.boxPart, srcPartRect)
            IN [data |-> stringify(transCurrent \o transPart),
                logicalSize |-> R(Floor(lay.next)),
                area |-> nextArea(currentArea, lay.next, currentLogicalSize,
                                  areaFactor)]

(***************************************************************************)
(* One compose call: the arguments are drawn from bounded sets, the single *)
(* action is the call.                                                     *)
(***************************************************************************)
StrokeA == <<1, 0, 0, 10, 10, 50, 50>>
StrokeB == <<2, 7, 8, 199, 1, 33, -4, 0, 200>>
StrokeC == <<1, 0, 0, 0, 0, 200, 200>>

CurrentStrokeSets == {<<>>, <<StrokeC>>, <<StrokeB, StrokeC>>}

PartStrokeSets == {<<StrokeA>>, <<StrokeA, StrokeB>>, <<>>}

\* 200 is the initial size; 285 and 500 are sizes compose returns from it;
\* 401/2 is a size importJson accepts (any JSON number)
CurrentSizes == {R(200), R(285), R(500), <<401, 2>>}

CurrentAreas == {R(40000), R(100000), <<400000, 7>>}

AreaFactors == {R(0), R(1), <<1, 2>>, R(2)}

\* no rect, and the rects of the u6728-01 and u706c-04 variants
PartRects == {NoRect,
              Rect(R(0), R(0), <<9, 20>>, R(1)),
              Rect(R(0), <<3, 5>>, R(1), <<2, 5>>)}

NoResult == [done |-> FALSE, data |-> <<>>, logicalSize |-> R(0), area |-> R(0)]

InitCompose ==
    /\ call \in [strokesCurrent : CurrentStrokeSets,
                 strokesPart : PartStrokeSets,
                 layoutMode : Layouts,
                 currentLogicalSize : CurrentSizes,
                 currentArea : CurrentAreas,
                 areaFactor : AreaFactors,
                 partRect : PartRects]
    /\ result = NoResult

Compose ==
    /\ ~result.done
    /\ LET r == compose(call.strokesCurrent, call.strokesPart, call.layoutMode,
                        call.currentLogicalSize, call.currentArea,
                        call.areaFactor, call.partRect)
       IN result' = [done |-> TRUE, data |-> r.data,
                     logicalSize |-> r.logicalSize, area |-> r.area]
    /\ UNCHANGED <<call, storeVars, loaderVars>>

NextCompose == Compose

(***************************************************************************)
(* Properties of compose.                                                  *)
(***************************************************************************)
\* the new size of the layout table, before any flooring
TableSize(layoutMode, cur) ==
    CASE layoutMode = "ADD_RIGHT" -> Rat(cur[1] + 300 * cur[2], cur[2])
      [] layoutMode = "ADD_LEFT" -> Rat(cur[1] + 120 * cur[2], cur[2])
      [] layoutMode = "ADD_TOP" -> Rat(cur[1] + 150 * cur[2], cur[2])
      [] layoutMode = "ADD_BOTTOM" -> Rat(cur[1] + 150 * cur[2], cur[2])
      [] layoutMode = "NYOU" -> Rat(10 * cur[1], 7 * cur[2])
      [] layoutMode = "ENCLOSE" -> Rat(cur[1] + 70 * cur[2], cur[2])
      [] layoutMode = "ENCLOSE_GATE" -> Rat(4 * cur[1], 3 * cur[2])
      [] layoutMode = "TRIANGLE" -> Rat(2 * cur[1], cur[2])

\* a * (n / c) as one fraction
Scaled(a, n, c) == RMul(a, Rat(n[1] * c[2], n[2] * c[1]))

AreaCase ==
    /\ result.done
    /\ call.areaFactor = R(1)
    /\ call.layoutMode # "TRIANGLE"

\* C8 as stated: for areaFactor = 1 and every non-TRIANGLE layout the
\* returned area is currentArea * (newSize / currentSize), newSize being the
\* logical size returned in the same result.
AreaFollowsReturnedSize ==
    AreaCase =>
        result.area = Scaled(call.currentArea, result.logicalSize,
                             call.currentLogicalSize)

\* C8 amended: for areaFactor = 1 and every non-TRIANGLE layout the
\* returned area is currentArea * (n / currentSize) with n the size the
\* layout computes before flooring; the returned logical size is floor(n),
\* so the area follows the returned size whenever n is an integer.
AreaFollowsUnflooredSize ==
    AreaCase =>
        LET n == TableSize(call.layoutMode, call.currentLogicalSize)
        IN /\ result.area = Scaled(call.currentArea, n, call.currentLogicalSize)
           /\ result.logicalSize = R(Floor(n))
           /\ IsInteger(n) =>
                 result.area = Scaled(call.currentArea, result.logicalSize,
                                      call.currentLogicalSize)

\* C8 witness: NYOU on the initial 200 square; 200 / 0.7 is no integer
NyouFromInitialSquare ==
    /\ AreaCase
    /\ call.layoutMode = "NYOU"
    /\ call.currentLogicalSize = R(200)
    /\ call.currentArea = R(40000)
    /\ result.logicalSize = R(285)
    /\ result.area = <<400000, 7>>

\* the text of a stringified stroke list, split back at the "$" tokens and
\* stripped of the ":" tokens: one sequence of number texts per stroke
RECURSIVE SplitStrokes(_)
SplitStrokes(tokens) ==
    IF tokens = <<>> THEN <<>>
    ELSE LET cut == IF \E i \in 1..Len(tokens) : tokens[i] = "$"
                    THEN CHOOSE i \in 1..Len(tokens) :
                            /\ tokens[i] = "$"
                            /\ \A j \in 1..(i - 1) : tokens[j] # "$"
                    ELSE Len(tokens) + 1
             first == SubSeq(tokens, 1, cut - 1)
             fields == [k \in 1..((Len(first) + 1) \div 2) |-> first[2 * k - 1]]
         IN <<fields>> \o SplitStrokes(SubSeq(tokens, cut + 1, Len(tokens)))

AddRightCase ==
    /\ result.done
    /\ call.layoutMode = "ADD_RIGHT"
    /\ ~call.partRect.given

\* the text of part stroke s with every pair (x, y) written as
\* (floor(x * 300/200 + cur), floor(y * n/200))
AddRightImage(s, cur, n) ==
    [i \in 1..Len(s) |->
        IF i < 4 THEN ToString(s[i])
        ELSE IF i % 2 = 0
             THEN ToString(Floor(RAdd(Rat(s[i] * 300, 200), cur)))
             ELSE ToString(Floor(Rat(s[i] * n[1], 200 * n[2])))]

PartPlacedLast(n) ==
    LET out == SplitStrokes(result.data)
        nc == Len(call.strokesCurrent)
        np == Len(call.strokesPart)
    IN /\ Len(out) = nc + np
       /\ \A k \in 1..np :
             out[nc + k] = AddRightImage(call.strokesPart[k],
                                         call.currentLogicalSize, n)

TriangleCase ==
    /\ result.done
    /\ call.layoutMode = "TRIANGLE"

\* the text of part stroke s mapped from the source region of the part
\* (the whole 200 x 200 square when no partRect is given) onto the square
\* of side side whose corner is (bx, by): a pair (x, y) becomes
\* (floor(bx + (x - 200*rx) * side / (200*rw)),
\*  floor(by + (y - 200*ry) * side / (200*rh)))
TriangleImage(s, bx, by, side, rect) ==
    LET px(v) == RAdd(bx, RDiv(RMul(RSub(R(v), RMul(rect.x, R(200))), side),
                               RMul(rect.w, R(200))))
        py(v) == RAdd(by, RDiv(RMul(RSub(R(v), RMul(rect.y, R(200))), side),
                               RMul(rect.h, R(200))))
    IN [i \in 1..Len(s) |->
           IF i < 4 THEN ToString(s[i])
           ELSE IF i % 2 = 0 THEN ToString(Floor(px(s[i])))
                ELSE ToString(Floor(py(s[i])))]

\* C11: for TRIANGLE compose returns newSize = 2 * currentSize and
\* newArea = 3 * 40000 * areaFactor whatever currentArea is; its output is
\* exactly three transformed copies of the part's strokes, in squares of
\* side newSize/2 at the top (centred), the bottom left and the bottom
\* right, and holds no stroke of the existing composite.
TriangleReplacesComposite ==
    TriangleCase =>
        LET out == SplitStrokes(result.data)
            np == Len(call.strokesPart)
            side == RMul(result.logicalSize, Rat(1, 2))
            quarter == RMul(result.logicalSize, Rat(1, 4))
        IN /\ result.logicalSize = RMul(R(2), call.currentLogicalSize)
           /\ result.area = RMul(R(3 * 40000), call.areaFactor)
           /\ Len(out) = 3 * np
           /\ \A k \in 1..np :
                 /\ out[k] = TriangleImage(call.strokesPart[k], quarter, R(0),
                                           side, call.partRect)
                 /\ out[np + k] = TriangleImage(call.strokesPart[k], R(0), side,
                                                side, call.partRect)
                 /\ out[2 * np + k] = TriangleImage(call.strokesPart[k], side,
                                                    side, side, call.partRect)

\* C11 witness: the scenario with currentSize 200 and areaFactor 1 on a
\* composite of two strokes whose area is not 40000: size 400, area 120000,
\* and the part's stroke three times
TriangleScenario ==
    /\ TriangleCase
    /\ call.strokesCurrent = <<StrokeB, StrokeC>>
    /\ call.strokesPart = <<StrokeA>>
    /\ call.currentLogicalSize = R(200)
    /\ call.currentArea = R(100000)
    /\ call.areaFactor = R(1)
    /\ ~call.partRect.given
    /\ result.logicalSize = R(400)
    /\ result.area = R(120000)
    /\ result.data = <<"1", ":", "0", ":", "0", ":", "110", ":", "10", ":",
                       "150", ":", "50", "$",
                       "1", ":", "0", ":", "0", ":", "10", ":", "210", ":",
                       "50", ":", "250", "$",
                       "1", ":", "0", ":", "0", ":", "210", ":", "210", ":",
                       "250", ":", "250">>

(***************************************************************************)
(* GlyphLoader.  Names are strings; the display characters of the catalog  *)
(* are written "char:<code point>" (they do not begin with u).  A raw      *)
(* definition is the sequence of its records; of a record the model keeps  *)
(* cols[0] (type) and cols[7] (ref, "" when the record has no such field). *)
(***************************************************************************)
MaxTop == 2
MaxFaults == 1

Line(type, ref) == [type |-> type, ref |-> ref]

StrokeLine == Line("1", "")

\* what the external service holds: a definition per identifier.  In the
\* reference graph u56d7 is reached from u96e8 by two paths (directly and
\* through u96e8-03) and refers back to u96e8 (a cycle); its last record is
\* a component reference too short to carry a name.
Ids == {"u96e8", "u96e8-03", "u56d7"}

RefNames == {"u96e8", "u96e8-03", "u56d7"}

GlyphWiki(id) ==
    CASE id = "u96e8" -> <<StrokeLine, Line("99", "u96e8-03"), Line("99", "u56d7")>>
      [] id = "u96e8-03" -> <<Line("99", "u56d7")>>
      [] id = "u56d7" -> <<StrokeLine, Line("99", "u96e8"), Line("99", "")>>

\* cache entries and load() results.  absent: the object has no such key;
\* undefined: the key is there and holds undefined; number: a data field
\* that is not text; text: a raw definition; null: load()'s null.
Absent == [kind |-> "absent", text |-> <<>>]
UndefinedV == [kind |-> "undefined", text |-> <<>>]
NumberV == [kind |-> "number", text |-> <<>>]
NullV == [kind |-> "null", text |-> <<>>]
Text(lines) == [kind |-> "text", text |-> lines]

\* JavaScript truthiness of an entry: a missing key, undefined and the
\* empty string are falsy
Truthy(v) == v.kind = "number" \/ (v.kind = "text" /\ v.text # <<>>)

startsWithU(name) == name \in {"u96e8", "u96e8-03", "u56d7"}

NoId == ""

\* 'u' + the hexadecimal code point of the first character; null (NoId) for
\* the empty string
charToId(char) ==
    CASE char = "" -> NoId
      [] char = "char:96e8" -> "u96e8"
      [] char = "char:56d7" -> "u56d7"

CanonicalId(nameOrId) ==
    IF startsWithU(nameOrId) THEN nameOrId ELSE charToId(nameOrId)

CacheKeys == Ids \cup RefNames

\* load() from its entry to its first await: the invocation's record.
\* pc "fetch": suspended in await fetch(url); "done": returned.
StartLoad(nameOrId, parent, cch) ==
    LET id == CanonicalId(nameOrId)
        base == [name |-> nameOrId, id |-> id, parent |-> parent,
                 pc |-> "done", result |-> NullV, data |-> NullV,
                 children |-> {}, failed |-> FALSE]
    IN IF id = NoId THEN base
       ELSE IF Truthy(cch[id]) THEN [base EXCEPT !.result = cch[id]]
       ELSE [base EXCEPT !.pc = "fetch"]

\* the references load() recurses into: the 99 records whose cols[7] is
\* truthy and not (truthily) in the cache under that very name
RECURSIVE RefsToLoad(_, _)
RefsToLoad(lines, cch) ==
    IF lines = <<>> THEN <<>>
    ELSE LET l == Head(lines)
             rest == RefsToLoad(Tail(lines), cch)
         IN IF l.type = "99" /\ l.ref # "" /\ ~Truthy(cch[l.ref])
            THEN <<l.ref>> \o rest
            ELSE rest


CountOf(seq, id) == Cardinality({k \in 1..Len(seq) : seq[k].pc = "fetch" /\ seq[k].id = id})

Issue(newCalls) ==
    fetchCount' = [id \in Ids |-> fetchCount[id] + CountOf(newCalls, id)]

InitLoader ==
    /\ cache = [k \in CacheKeys |-> Absent]
    /\ calls = <<>>
    /\ fetchCount = [id \in Ids |-> 0]
    /\ writes = [id \in Ids |-> 0]
    /\ faults = 0
    /\ cr = [pc |-> "idle", loadCall |-> 0, char |-> "", layoutMode |-> "",
             partRect |-> NoRect, partDataStr |-> NullV]

TopNames == {"char:96e8", "u56d7", ""}

TopLevel(c) == calls[c].parent = 0

\* a caller invokes load(nameOrId)
Load(nameOrId) ==
    /\ Cardinality({c \in 1..Len(calls) : TopLevel(c)}) < MaxTop
    /\ LET new == StartLoad(nameOrId, 0, cache)
       IN /\ calls' = Append(calls, new)
          /\ Issue(<<new>>)
    /\ UNCHANGED <<cache, writes, faults, cr, storeVars, composeVars>>

\* await fetch(url) / await res.json() throws: the catch returns null
FetchFails(c) ==
    /\ calls[c].pc = "fetch"
    /\ faults < MaxFaults
    /\ faults' = faults + 1
    /\ calls' = [calls EXCEPT ![c].pc = "done", ![c].failed = TRUE]
    /\ UNCHANGED <<cache, fetchCount, writes, cr, storeVars, composeVars>>

\* the response has no text in data: the entry is assigned, data.split
\* throws and the catch returns null
FetchMalformed(c, entry) ==
    /\ calls[c].pc = "fetch"
    /\ faults < MaxFaults
    /\ faults' = faults + 1
    /\ cache' = [cache EXCEPT ![calls[c].id] = entry]
    /\ writes' = [writes EXCEPT ![calls[c].id] = @ + 1]
    /\ calls' = [calls EXCEPT ![c].pc = "done", ![c].failed = TRUE]
    /\ UNCHANGED <<fetchCount, cr, storeVars, composeVars>>

\* the response carries the definition: it is cached, then every reference
\* not yet cached is loaded (each load() runs to its own first await), and
\* the invocation suspends in await Promise.all(promises)
FetchSucceeds(c) ==
    /\ calls[c].pc = "fetch"
    /\ LET id == calls[c].id
           data == Text(GlyphWiki(id))
           cch == [cache EXCEPT ![id] = data]
           refs == RefsToLoad(data.text, cch)
           new == [k \in 1..Len(refs) |-> StartLoad(refs[k], c, cch)]
       IN /\ cache' = cch
          /\ writes' = [writes EXCEPT ![id] = @ + 1]
          /\ calls' = [calls EXCEPT ![c].pc = "await", ![c].data = data,
                                    ![c].children = (Len(calls) + 1)..(Len(calls) + Len(refs))]
                      \o new
          /\ Issue(new)
    /\ UNCHANGED <<faults, cr, storeVars, composeVars>>

\* Promise.all has settled (load() never rejects): return data
Resume(c) ==
    /\ calls[c].pc = "await"
    /\ \A k \in calls[c].children : calls[k].pc = "done"
    /\ calls' = [calls EXCEPT ![c].pc = "done", ![c].result = calls[c].data]
    /\ UNCHANGED <<cache, fetchCount, writes, faults, cr, storeVars, composeVars>>

(***************************************************************************)
(* GlyphConfig and KanjiComposer.composeRandom.  Two of the seventeen      *)
(* catalog entries are kept: one with a variant (and the layouts it has no *)
(* variant for), one without variants.                                     *)
(***************************************************************************)
Variant(layout, kind, id, rect) ==
    [layout |-> layout, kind |-> kind, id |-> id, rect |-> rect]

CHARS ==
    { [char |-> "char:96e8",
       layouts |-> {"ADD_TOP", "ADD_RIGHT"},
       variants |-> {Variant("ADD_TOP", "object", "u96e8-03",
                             Rect(R(0), R(0), R(1), <<1, 2>>))}],
      [char |-> "char:56d7",
       layouts |-> {"ENCLOSE"},
       variants |-> {}] }

\* the id and rect of the variant declared for the layout, the entry's own
\* character and no rect when there is none
getVariantInfo(charConfig, layoutMode) ==
    LET found == {v \in charConfig.variants : v.layout = layoutMode}
    IN IF found = {}
       THEN [id |-> charConfig.char, rect |-> NoRect]
       ELSE LET variant == CHOOSE v \in found : TRUE
            IN IF variant.kind = "object" /\ variant.id # ""
               THEN [id |-> variant.id, rect |-> variant.rect]
               ELSE IF variant.kind = "string"
                    THEN [id |-> variant.id, rect |-> NoRect]
                    ELSE [id |-> charConfig.char, rect |-> NoRect]

\* composeRandom up to its await: the entry and layout are drawn, the
\* variant resolved, load(id) invoked
ComposeRandom(charConfig, layoutMode) ==
    /\ cr.pc = "idle"
    /\ Cardinality({c \in 1..Len(calls) : TopLevel(c)}) < MaxTop
    /\ LET info == getVariantInfo(charConfig, layoutMode)
           new == StartLoad(info.id, 0, cache)
       IN /\ calls' = Append(calls, new)
          /\ Issue(<<new>>)
          /\ cr' = [cr EXCEPT !.pc = "loading", !.loadCall = Len(calls) + 1,
                              !.char = charConfig.char,
                              !.layoutMode = layoutMode,
                              !.partRect = info.rect]
    /\ UNCHANGED <<cache, writes, faults, storeVars, composeVars>>

\* load(id) has returned: this.compose(currentData, partDataStr, ...) is
\* invoked with whatever it returned
ComposeRandomResume ==
    /\ cr.pc = "loading"
    /\ calls[cr.loadCall].pc = "done"
    /\ cr' = [cr EXCEPT !.pc = "composed",
                        !.partDataStr = calls[cr.loadCall].result]
    /\ UNCHANGED <<cache, calls, fetchCount, writes, faults, storeVars, composeVars>>

NextLoader ==
    \/ \E nameOrId \in TopNames : Load(nameOrId)
    \/ \E c \in 1..Len(calls) : FetchFails(c)
    \/ \E c \in 1..Len(calls), entry \in {UndefinedV, NumberV} : FetchMalformed(c, entry)
    \/ \E c \in 1..Len(calls) : FetchSucceeds(c)
    \/ \E c \in 1..Len(calls) : Resume(c)
    \/ \E charConfig \in CHARS : \E layoutMode \in charConfig.layouts :
          ComposeRandom(charConfig, layoutMode)
    \/ ComposeRandomResume

(***************************************************************************)
(* Properties of the loader and of composeRandom.                          *)
(***************************************************************************)
\* C1: under any interleaving of load calls the external fetch is issued at
\* most once per canonical identifier.
FetchedAtMostOnce == \A id \in Ids : fetchCount[id] <= 1

\* the names a definition refers to through its component-reference records
RefsOf(lines) ==
    {lines[k].ref : k \in {j \in 1..Len(lines) : lines[j].type = "99" /\ lines[j].ref # ""}}

\* the identifiers reachable from a set of names through the definitions the
\* service holds
RECURSIVE Reachable(_, _)
Reachable(frontier, seen) ==
    IF frontier \subseteq seen THEN seen
    ELSE LET now == seen \cup frontier
         IN Reachable(UNION {RefsOf(GlyphWiki(CanonicalId(r))) : r \in frontier}, now)

Resolving(c) ==
    /\ TopLevel(c)'
    /\ calls'[c].pc = "done"
    /\ c <= Len(calls) => calls[c].pc # "done"

\* C2: while every fetch has succeeded, at the moment a load call made by a
\* caller resolves with a raw definition (a call made while another load is
\* in flight included), every identifier that definition refers to,
\* directly or transitively, is in the cache.
ResolvedLoadHasAllParts ==
    [][\A c \in 1..Len(calls') :
          (Resolving(c) /\ calls'[c].result.kind = "text" /\ faults' = 0) =>
             \A r \in Reachable(RefsOf(calls'[c].result.text), {}) :
                cache'[CanonicalId(r)].kind = "text"]_vars

\* C3: when a load made by a caller fails, it yields null and the cache
\* holds no entry for its identifier afterwards (other than a definition
\* another load had put there before).
FailedLoadLeavesNoEntry ==
    [][\A c \in 1..Len(calls) :
          (TopLevel(c) /\ calls[c].pc = "fetch" /\ calls'[c].pc = "done"
             /\ calls'[c].failed) =>
             /\ calls'[c].result = NullV
             /\ \/ cache'[calls[c].id] = Absent
                \/ /\ cache[calls[c].id].kind = "text"
                   /\ cache'[calls[c].id] = cache[calls[c].id]]_vars

\* C4: once an identifier is bound to a raw definition it stays bound to
\* that definition, and the key is not assigned a second time.
CacheNeverRewritten ==
    [][\A id \in Ids :
          cache[id].kind = "text" =>
             /\ cache'[id] = cache[id]
             /\ writes'[id] = writes[id]]_vars

\* C9: composeRandom never invokes compose with an absent part definition.
ComposeNeverGetsAbsentPart ==
    cr.pc = "composed" => cr.partDataStr.kind # "null"

(***************************************************************************)
(* The specifications.  Each runs one part and leaves the others as        *)
(* constructed.                                                            *)
(***************************************************************************)
IdleCompose ==
    /\ call = [strokesCurrent |-> <<>>, strokesPart |-> <<>>,
               layoutMode |-> "ADD_RIGHT", currentLogicalSize |-> R(200),
               currentArea |-> R(40000), areaFactor |-> R(1),
               partRect |-> NoRect]
    /\ result = NoResult

Init == InitLoader /\ InitStore /\ IdleCompose

Next == NextLoader

Spec == Init /\ [][Next]_vars

InitStoreOnly == InitStore /\ IdleCompose /\ InitLoader

SpecStore == InitStoreOnly /\ [][NextStore]_vars

InitComposeOnly == InitCompose /\ InitStore /\ InitLoader

SpecCompose == InitComposeOnly /\ [][NextCompose]_vars

=============================================================================
